---- MODULE Spec2Model ----
(***************************************************************************)
(* Quagga routing-service configuration generation, modelled from          *)
(* daemon/core/services/quagga.py: the composer Zebra.generateQuaggaConf,  *)
(* the protocol services' hooks, and the boot script that                   *)
(* Zebra.generateQuaggaBoot emits.                                          *)
(*                                                                         *)
(* A Python str is a sequence of one-character strings.  Every piece of    *)
(* text the services build ends in "\n", so a text is the sequence of its  *)
(* lines (without the line terminators).                                   *)
(***************************************************************************)
EXTENDS Integers, Sequences, FiniteSets

VARIABLES node, quaggaConf, quaggaBoot, ifccfg, out, run

vars == <<node, quaggaConf, quaggaBoot, ifccfg, out, run>>

\* ------------------------------------------------------------------ bounds
\* most interfaces of a node
MaxIfcs == 2
\* most addresses of a node's interfaces together
MaxAddrs == 2
\* most services enabled on a node beside zebra
MaxServices == 2
\* most peer interfaces on an interface's link
MaxPeers == 2
\* most calls of Zebra.generate_config on a node
MaxCalls == 2

\* ------------------------------------------------------------ str helpers
\* str.find(c): the 0-based index of the first c, -1 when there is none
find(x, c) ==
  IF \E i \in 1..Len(x) : x[i] = c
  THEN (CHOOSE i \in 1..Len(x) : x[i] = c /\ \A j \in 1..(i - 1) : x[j] # c) - 1
  ELSE -1

\* x.split(c)[0]
split0(x, c) == IF find(x, c) >= 0 THEN SubSeq(x, 1, find(x, c)) ELSE x

\* x.startswith(p)
startswith(x, p) == Len(x) >= Len(p) /\ SubSeq(x, 1, Len(p)) = p

\* "%s" % n and "%d" % n for a natural number
RECURSIVE str(_)
str(n) ==
  LET digit == <<"0","1","2","3","4","5","6","7","8","9">>
  IN IF n < 10 THEN <<digit[n + 1]>> ELSE str(n \div 10) \o <<digit[(n % 10) + 1]>>

\* the concatenation of a sequence of texts (cfg += ... in a loop)
RECURSIVE concat(_)
concat(ts) == IF ts = <<>> THEN <<>> ELSE Head(ts) \o concat(Tail(ts))

\* ---------------------------------------------------------------- services
DefaultMtu == 1500

Zebra ==
  [name |-> "zebra", dependencies |-> {},
   ipv4_routing |-> FALSE, ipv6_routing |-> FALSE]

Ospfv2 ==
  [name |-> "OSPFv2", dependencies |-> {"zebra"},
   ipv4_routing |-> TRUE, ipv6_routing |-> FALSE]

Ospfv3 ==
  [name |-> "OSPFv3", dependencies |-> {"zebra"},
   ipv4_routing |-> TRUE, ipv6_routing |-> TRUE]

Ospfv3mdr ==
  [name |-> "OSPFv3MDR", dependencies |-> {"zebra"},
   ipv4_routing |-> TRUE, ipv6_routing |-> TRUE]

Bgp ==
  [name |-> "BGP", dependencies |-> {"zebra"},
   ipv4_routing |-> TRUE, ipv6_routing |-> TRUE]

Rip ==
  [name |-> "RIP", dependencies |-> {"zebra"},
   ipv4_routing |-> TRUE, ipv6_routing |-> FALSE]

Ripng ==
  [name |-> "RIPNG", dependencies |-> {"zebra"},
   ipv4_routing |-> FALSE, ipv6_routing |-> TRUE]

Babel ==
  [name |-> "Babel", dependencies |-> {"zebra"},
   ipv4_routing |-> FALSE, ipv6_routing |-> TRUE]

Xpimd ==
  [name |-> "Xpimd", dependencies |-> {"zebra"},
   ipv4_routing |-> TRUE, ipv6_routing |-> FALSE]

\* Services outside quagga.py that subclass QuaggaService (the set of
\* services is open): one overrides dependencies with a second prerequisite,
\* one replaces the dependency on zebra, one keeps the defaults and sets
\* both hooks.
Nhrp ==
  [name |-> "NHRP", dependencies |-> {"zebra", "IPsec"},
   ipv4_routing |-> FALSE, ipv6_routing |-> FALSE]

Olsr ==
  [name |-> "OLSR", dependencies |-> {"IPForward"},
   ipv4_routing |-> TRUE, ipv6_routing |-> TRUE]

Pim6 ==
  [name |-> "PIM6", dependencies |-> {"zebra"},
   ipv4_routing |-> FALSE, ipv6_routing |-> FALSE]

\* ifc.control: hasattr(ifc, "control") and ifc.control is True
control(ifc) == ifc.control

\* ifc.net is a network object (truthy) or None
hasnet(ifc) == ifc.net.present

\* ipaddress.is_ipv4_address / is_ipv6_address (core.nodes.ipaddress)
is_ipv4_address(x) == find(x, ".") >= 0

is_ipv6_address(x) == find(x, ":") >= 0

\* str(ipaddress.Ipv4Prefix(a)) (core.nodes.ipaddress): the network of the
\* address, its host bits cleared, for the prefix length 24 of the
\* addresses used here
Ipv4Prefix(a) ==
  LET ip == split0(a, "/")
      dots == {i \in 1..Len(ip) : ip[i] = "."}
      last == CHOOSE i \in dots : \A j \in dots : j <= i
  IN SubSeq(ip, 1, last) \o <<"0">> \o SubSeq(a, Len(ip) + 1, Len(a))

\* ----------------------------------------------------------- QuaggaService
RECURSIVE routeridfrom(_, _)
routeridfrom(netifs, i) ==
  IF i > Len(netifs) THEN <<"0",".","0",".","0",".","0">>
  ELSE IF control(netifs[i]) THEN routeridfrom(netifs, i + 1)
  ELSE LET al == netifs[i].addrlist
           hits == {k \in 1..Len(al) : find(al[k], ".") >= 0}
       IN IF hits # {}
          THEN split0(al[CHOOSE k \in hits : \A h \in hits : k <= h], "/")
          ELSE routeridfrom(netifs, i + 1)

\* faulty variant: the control interfaces are scanned too
routerid_anyifc(n) ==
  routeridfrom([i \in 1..Len(n.netifs) |-> [n.netifs[i] EXCEPT !.control = FALSE]], 1)

routerid(n) == routeridfrom(n.netifs, 1)

\* ------------------------------------------------------------------ Ospfv2
RECURSIVE firstmismatch(_, _)
firstmismatch(mtus, mtu) ==
  IF mtus = <<>> THEN <<>>
  ELSE IF Head(mtus) # mtu THEN <<<<" "," ","i","p"," ","o","s","p","f"," ","m","t","u","-","i","g","n","o","r","e">>>>
  ELSE firstmismatch(Tail(mtus), mtu)

\* faulty variant: the MTU is compared with the peers' only
Ospfv2_mtucheck_peersonly(ifc) ==
  IF ~hasnet(ifc) THEN <<>> ELSE firstmismatch(ifc.net.netifs, ifc.mtu)

Ospfv2_mtucheck(ifc) ==
  IF ifc.mtu # DefaultMtu THEN <<<<" "," ","i","p"," ","o","s","p","f"," ","m","t","u","-","i","g","n","o","r","e">>>>
  ELSE IF ~hasnet(ifc) THEN <<>>
  ELSE firstmismatch(ifc.net.netifs, ifc.mtu)

Ospfv2_networks(n) ==
  concat([i \in 1..Len(n.netifs) |->
    IF control(n.netifs[i]) THEN <<>>
    ELSE LET al == n.netifs[i].addrlist
         IN concat([k \in 1..Len(al) |->
              IF find(al[k], ".") < 0 THEN <<>>
              ELSE <<<<" "," ","n","e","t","w","o","r","k"," ">> \o Ipv4Prefix(al[k]) \o <<" ","a","r","e","a"," ","0">>>>])])

Ospfv2_generatequaggaconfig(n) ==
  <<<<"r","o","u","t","e","r"," ","o","s","p","f">>, <<" "," ","r","o","u","t","e","r","-","i","d"," ">> \o routerid(n)>>
    \o Ospfv2_networks(n) \o <<<<"!">>>>

\* ------------------------------------------------------------------ Ospfv3
RECURSIVE minmtufrom(_, _)
minmtufrom(mtus, mtu) ==
  IF mtus = <<>> THEN mtu
  ELSE minmtufrom(Tail(mtus), IF Head(mtus) < mtu THEN Head(mtus) ELSE mtu)

minmtu(ifc) ==
  IF ~hasnet(ifc) THEN ifc.mtu ELSE minmtufrom(ifc.net.netifs, ifc.mtu)

Ospfv3_mtucheck(ifc) ==
  IF minmtu(ifc) < ifc.mtu
  THEN <<<<" "," ","i","p","v","6"," ","o","s","p","f","6"," ","i","f","m","t","u"," ">> \o str(minmtu(ifc))>>
  ELSE <<>>

Ospfv3_generatequaggaconfig(n) ==
  <<<<"r","o","u","t","e","r"," ","o","s","p","f","6">>, <<" "," ","r","o","u","t","e","r","-","i","d"," ">> \o routerid(n)>>
    \o concat([i \in 1..Len(n.netifs) |->
         IF control(n.netifs[i]) THEN <<>>
         ELSE <<<<" "," ","i","n","t","e","r","f","a","c","e"," ">> \o n.netifs[i].name \o <<" ","a","r","e","a"," ","0",".","0",".","0",".","0">>>>])
    \o <<<<"!">>>>

Ospfv3mdr_generatequaggaifcconfig(ifc) ==
  LET cfg == Ospfv3_mtucheck(ifc) \o <<<<" "," ","i","p","v","6"," ","o","s","p","f","6"," ","i","n","s","t","a","n","c","e","-","i","d"," ","6","5">>>>
  IN IF hasnet(ifc) /\ ifc.net.type \in {"WIRELESS_LAN", "EMANE"}
     THEN cfg \o <<<<" "," ","i","p","v","6"," ","o","s","p","f","6"," ","h","e","l","l","o","-","i","n","t","e","r","v","a","l"," ","2">>,
                   <<" "," ","i","p","v","6"," ","o","s","p","f","6"," ","d","e","a","d","-","i","n","t","e","r","v","a","l"," ","6">>,
                   <<" "," ","i","p","v","6"," ","o","s","p","f","6"," ","r","e","t","r","a","n","s","m","i","t","-","i","n","t","e","r","v","a","l"," ","5">>,
                   <<" "," ","i","p","v","6"," ","o","s","p","f","6"," ","n","e","t","w","o","r","k"," ","m","a","n","e","t","-","d","e","s","i","g","n","a","t","e","d","-","r","o","u","t","e","r">>,
                   <<" "," ","i","p","v","6"," ","o","s","p","f","6"," ","d","i","f","f","h","e","l","l","o","s">>,
                   <<" "," ","i","p","v","6"," ","o","s","p","f","6"," ","a","d","j","a","c","e","n","c","y","c","o","n","n","e","c","t","i","v","i","t","y"," ","u","n","i","c","o","n","n","e","c","t","e","d">>,
                   <<" "," ","i","p","v","6"," ","o","s","p","f","6"," ","l","s","a","f","u","l","l","n","e","s","s"," ","m","i","n","c","o","s","t","l","s","a">>>>
     ELSE cfg

\* --------------------------------------------------------------------- Bgp
Bgp_generatequaggaconfig(n) ==
  <<<<"!">>, <<"!"," ","B","G","P"," ","c","o","n","f","i","g","u","r","a","t","i","o","n">>, <<"!">>,
    <<"!"," ","Y","o","u"," ","s","h","o","u","l","d"," ","c","o","n","f","i","g","u","r","e"," ","t","h","e"," ","A","S"," ","n","u","m","b","e","r"," ","b","e","l","o","w",",">>,
    <<"!"," ","a","l","o","n","g"," ","w","i","t","h"," ","t","h","i","s"," ","r","o","u","t","e","r","'","s"," ","p","e","e","r","s",".">>, <<"!">>,
    <<"r","o","u","t","e","r"," ","b","g","p"," ">> \o str(n.id),
    <<" "," ","b","g","p"," ","r","o","u","t","e","r","-","i","d"," ">> \o routerid(n),
    <<" "," ","r","e","d","i","s","t","r","i","b","u","t","e"," ","c","o","n","n","e","c","t","e","d">>,
    <<"!"," ","n","e","i","g","h","b","o","r"," ","1",".","2",".","3",".","4"," ","r","e","m","o","t","e","-","a","s"," ","5","5","5">>, <<"!">>>>

\* ------------------------------------------------------------- Rip, Ripng
Rip_generatequaggaconfig ==
  <<<<"r","o","u","t","e","r"," ","r","i","p">>, <<" "," ","r","e","d","i","s","t","r","i","b","u","t","e"," ","s","t","a","t","i","c">>, <<" "," ","r","e","d","i","s","t","r","i","b","u","t","e"," ","c","o","n","n","e","c","t","e","d">>,
    <<" "," ","r","e","d","i","s","t","r","i","b","u","t","e"," ","o","s","p","f">>, <<" "," ","n","e","t","w","o","r","k"," ","0",".","0",".","0",".","0","/","0">>, <<"!">>>>

Ripng_generatequaggaconfig ==
  <<<<"r","o","u","t","e","r"," ","r","i","p","n","g">>, <<" "," ","r","e","d","i","s","t","r","i","b","u","t","e"," ","s","t","a","t","i","c">>, <<" "," ","r","e","d","i","s","t","r","i","b","u","t","e"," ","c","o","n","n","e","c","t","e","d">>,
    <<" "," ","r","e","d","i","s","t","r","i","b","u","t","e"," ","o","s","p","f","6">>, <<" "," ","n","e","t","w","o","r","k"," ",":",":","/","0">>, <<"!">>>>

\* ------------------------------------------------------------------- Babel
Babel_generatequaggaconfig(n) ==
  <<<<"r","o","u","t","e","r"," ","b","a","b","e","l">>>>
    \o concat([i \in 1..Len(n.netifs) |->
         IF control(n.netifs[i]) THEN <<>>
         ELSE <<<<" "," ","n","e","t","w","o","r","k"," ">> \o n.netifs[i].name>>])
    \o <<<<" "," ","r","e","d","i","s","t","r","i","b","u","t","e"," ","s","t","a","t","i","c">>, <<" "," ","r","e","d","i","s","t","r","i","b","u","t","e"," ","c","o","n","n","e","c","t","e","d">>>>

Babel_generatequaggaifcconfig(ifc) ==
  IF hasnet(ifc) /\ ifc.net.linktype = "WIRELESS"
  THEN <<<<" "," ","b","a","b","e","l"," ","w","i","r","e","l","e","s","s">>, <<" "," ","n","o"," ","b","a","b","e","l"," ","s","p","l","i","t","-","h","o","r","i","z","o","n">>>>
  ELSE <<<<" "," ","b","a","b","e","l"," ","w","i","r","e","d">>, <<" "," ","b","a","b","e","l"," ","s","p","l","i","t","-","h","o","r","i","z","o","n">>>>

\* ------------------------------------------------------------------- Xpimd
Xpimd_ifname(n) ==
  LET hits == {i \in 1..Len(n.netifs) : n.netifs[i].name # <<"l","o">>}
  IN IF hits = {} THEN <<"e","t","h","0">>
     ELSE n.netifs[CHOOSE i \in hits : \A h \in hits : i <= h].name

Xpimd_generatequaggaconfig(n) ==
  <<<<"r","o","u","t","e","r"," ","m","f","e","a">>, <<"!">>, <<"r","o","u","t","e","r"," ","i","g","m","p">>, <<"!">>, <<"r","o","u","t","e","r"," ","p","i","m">>,
    <<" "," ","!","i","p"," ","p","i","m"," ","r","p","-","a","d","d","r","e","s","s"," ","1","0",".","0",".","0",".","1">>,
    <<" "," ","i","p"," ","p","i","m"," ","b","s","r","-","c","a","n","d","i","d","a","t","e"," ">> \o Xpimd_ifname(n),
    <<" "," ","i","p"," ","p","i","m"," ","r","p","-","c","a","n","d","i","d","a","t","e"," ">> \o Xpimd_ifname(n),
    <<" "," ","!","i","p"," ","p","i","m"," ","s","p","t","-","t","h","r","e","s","h","o","l","d"," ","i","n","t","e","r","v","a","l"," ","1","0"," ","b","y","t","e","s"," ","8","0","0","0","0">>>>

Xpimd_generatequaggaifcconfig ==
  <<<<" "," ","i","p"," ","m","f","e","a">>, <<" "," ","i","p"," ","i","g","m","p">>, <<" "," ","i","p"," ","p","i","m">>>>

\* ------------------------------------------- the hooks, by service class
generatequaggaifcconfig(s, n, ifc) ==
  CASE s.name = "OSPFv2" -> Ospfv2_mtucheck(ifc)
    [] s.name = "OSPFv3" -> Ospfv3_mtucheck(ifc)
    [] s.name = "OSPFv3MDR" -> Ospfv3mdr_generatequaggaifcconfig(ifc)
    [] s.name = "Babel" -> Babel_generatequaggaifcconfig(ifc)
    [] s.name = "Xpimd" -> Xpimd_generatequaggaifcconfig
    [] s.name = "NHRP" -> <<<<" "," ","i","p"," ","n","h","r","p"," ","m","a","p"," ","m","u","l","t","i","c","a","s","t"," ","d","y","n","a","m","i","c">>>>
    [] s.name = "OLSR" -> <<<<" "," ","o","l","s","r"," ","h","e","l","l","o","-","i","n","t","e","r","v","a","l"," ","2">>>>
    [] s.name = "PIM6" -> <<<<" "," ","i","p","v","6"," ","p","i","m">>>>
    [] OTHER -> <<>>

generatequaggaconfig(s, n) ==
  CASE s.name = "OSPFv2" -> Ospfv2_generatequaggaconfig(n)
    [] s.name \in {"OSPFv3", "OSPFv3MDR"} -> Ospfv3_generatequaggaconfig(n)
    [] s.name = "BGP" -> Bgp_generatequaggaconfig(n)
    [] s.name = "RIP" -> Rip_generatequaggaconfig
    [] s.name = "RIPNG" -> Ripng_generatequaggaconfig
    [] s.name = "Babel" -> Babel_generatequaggaconfig(n)
    [] s.name = "Xpimd" -> Xpimd_generatequaggaconfig(n)
    [] s.name = "NHRP" -> <<<<"r","o","u","t","e","r"," ","n","h","r","p">>, <<"!">>>>
    [] s.name = "OLSR" -> <<<<"r","o","u","t","e","r"," ","o","l","s","r">>, <<"!">>>>
    [] s.name = "PIM6" -> <<<<" "," ","r","o","u","t","e","r"," "," "," ","p","i","m","6"," ">>, <<"!">>>>
    [] OTHER -> <<>>

\* ------------------------------------------------------------------- Zebra
\* Zebra.addrstr: an address statement, or ValueError raised
addrstr(x) ==
  IF find(x, ".") >= 0 THEN [raised |-> FALSE, text |-> <<"i","p"," ","a","d","d","r","e","s","s"," ">> \o x]
  ELSE IF find(x, ":") >= 0 THEN [raised |-> FALSE, text |-> <<"i","p","v","6"," ","a","d","d","r","e","s","s"," ">> \o x]
  ELSE [raised |-> TRUE, text |-> <<>>]

\* "  " + "\n  ".join(map(cls.addrstr, al)) + "\n"
addrlines(al) ==
  LET stmts == [k \in 1..Len(al) |-> addrstr(al[k])]
  IN IF \E k \in 1..Len(al) : stmts[k].raised
     THEN [raised |-> TRUE, text |-> <<>>]
     ELSE [raised |-> FALSE,
           text |-> IF al = <<>> THEN <<<<" "," ">>>>
                    ELSE [k \in 1..Len(al) |-> <<" "," ">> \o stmts[k].text]]

\* filter(lambda x: ipaddress.is_ipv4_address(x.split("/")[0]), ifc.addrlist)
\* faulty variant: no filter
ipv4list_unfiltered(al) == al

RECURSIVE ipv4list(_)
ipv4list(al) ==
  IF al = <<>> THEN <<>>
  ELSE (IF is_ipv4_address(split0(Head(al), "/")) THEN <<Head(al)>> ELSE <<>>)
         \o ipv4list(Tail(al))

\* filter(lambda x: ipaddress.is_ipv6_address(x.split("/")[0]), ifc.addrlist)
RECURSIVE ipv6list(_)
ipv6list(al) ==
  IF al = <<>> THEN <<>>
  ELSE (IF is_ipv6_address(split0(Head(al), "/")) THEN <<Head(al)>> ELSE <<>>)
         \o ipv6list(Tail(al))

\* not (cls.name not in s.dependencies): the service's hooks are invoked
\* faulty variant: no gate
depends_always(s) == TRUE

depends(s) == Zebra.name \in s.dependencies

\* the interface text of the services whose hooks are invoked, split by
\* s.ipv6_routing into the two accumulators
\* faulty variant: split by s.ipv4_routing
cfgv4_byflag(n, ifc) ==
  concat([k \in 1..Len(n.services) |->
    IF depends(n.services[k]) /\ n.services[k].ipv4_routing
    THEN generatequaggaifcconfig(n.services[k], n, ifc) ELSE <<>>])

cfgv4(n, ifc) ==
  concat([k \in 1..Len(n.services) |->
    IF depends(n.services[k]) /\ ~n.services[k].ipv6_routing
    THEN generatequaggaifcconfig(n.services[k], n, ifc) ELSE <<>>])

cfgv6(n, ifc) ==
  concat([k \in 1..Len(n.services) |->
    IF depends(n.services[k]) /\ n.services[k].ipv6_routing
    THEN generatequaggaifcconfig(n.services[k], n, ifc) ELSE <<>>])

want_ipv4(n) ==
  \E k \in 1..Len(n.services) : depends(n.services[k]) /\ n.services[k].ipv4_routing

want_ipv6(n) ==
  \E k \in 1..Len(n.services) : depends(n.services[k]) /\ n.services[k].ipv6_routing

\* one pass of the loop over node.netifs(): the text added to cfg, or
\* ValueError raised by addrstr
ifcblock(n, ifc) ==
  LET head == <<<<"i","n","t","e","r","f","a","c","e"," ">> \o ifc.name>>
  IN IF control(ifc)
     THEN LET a == addrlines(ifc.addrlist)
          IN [raised |-> a.raised, text |-> head \o a.text]
     ELSE LET v4 == addrlines(ipv4list(ifc.addrlist))
              v6 == addrlines(ipv6list(ifc.addrlist))
          IN [raised |-> (want_ipv4(n) /\ v4.raised) \/ (want_ipv6(n) /\ v6.raised),
              text |-> head
                         \o (IF want_ipv4(n) THEN v4.text \o cfgv4(n, ifc) ELSE <<>>)
                         \o (IF want_ipv6(n) THEN v6.text \o cfgv6(n, ifc) ELSE <<>>)
                         \o <<<<"!">>>>]

\* the result of a call: the text returned, or ValueError raised; ifclen is
\* the number of lines of cfg when the loop over the interfaces ends
NotRun == [state |-> "none", text |-> <<>>, ifclen |-> 0]

generateQuaggaConf(n) ==
  LET ss == n.services
      blocks == [i \in 1..Len(n.netifs) |-> ifcblock(n, n.netifs[i])]
      ifcs == concat([i \in 1..Len(n.netifs) |-> blocks[i].text])
      globals == concat([k \in 1..Len(ss) |->
                   IF depends(ss[k]) THEN generatequaggaconfig(ss[k], n) ELSE <<>>])
  IN IF \E i \in 1..Len(n.netifs) : blocks[i].raised
     THEN [state |-> "raised", text |-> <<>>, ifclen |-> 0]
     ELSE [state |-> "returned", text |-> ifcs \o globals, ifclen |-> Len(ifcs)]

\* Zebra.generateVtyshConf
generateVtyshConf(n) == <<<<"s","e","r","v","i","c","e"," ","i","n","t","e","g","r","a","t","e","d","-","v","t","y","s","h","-","c","o","n","f","i","g">>>>

\* Zebra.configs
configs ==
  <<"/usr/local/etc/quagga/Quagga.conf", "quaggaboot.sh",
    "/usr/local/etc/quagga/vtysh.conf">>

\* node.session.options.get_config(name, default=...) (core.config)
get_config(options, name, default) ==
  IF options[name].set THEN options[name].value ELSE default

\* Zebra.generateQuaggaBoot: the script is the fixed template with
\* its four values filled in; a search path is the list of its words
generateQuaggaBoot(n) ==
  [state |-> "returned",
   QUAGGA_CONF |-> configs[1],
   QUAGGA_SBIN_SEARCH |->
     get_config(n.options, "quagga_sbin_search",
                <<<<"/","u","s","r","/","l","o","c","a","l","/","s","b","i","n">>, <<"/","u","s","r","/","s","b","i","n">>, <<"/","u","s","r","/","l","i","b","/","q","u","a","g","g","a">>>>),
   QUAGGA_BIN_SEARCH |->
     get_config(n.options, "quagga_bin_search",
                <<<<"/","u","s","r","/","l","o","c","a","l","/","b","i","n">>, <<"/","u","s","r","/","b","i","n">>, <<"/","u","s","r","/","l","i","b","/","q","u","a","g","g","a">>>>),
   QUAGGA_STATE_DIR |-> "/var/run/quagga"]

\* Zebra.generate_config: the file's contents, or ValueError raised
generate_config(n, filename) ==
  IF filename = configs[1]
  THEN [kind |-> "conf", conf |-> generateQuaggaConf(n)]
  ELSE IF filename = configs[2]
  THEN [kind |-> "boot", boot |-> generateQuaggaBoot(n)]
  ELSE IF filename = configs[3]
  THEN [kind |-> "vtysh", text |-> generateVtyshConf(n)]
  ELSE [kind |-> "raised"]

\* ----------------------------------------------------- the boot script
\* searchforprog: the first word p of "$@" (the program's name, then the
\* search path) with an executable p/prog, empty when there is none; execs
\* holds the words p for which [ -x p/prog ] succeeds
RECURSIVE firstexec(_, _)
firstexec(ps, execs) ==
  IF ps = <<>> THEN <<>>
  ELSE IF Head(ps) \in execs THEN Head(ps)
  ELSE firstexec(Tail(ps), execs)

searchforprog(prog, searchpath, execs) == firstexec(<<prog>> \o searchpath, execs)

\* the characters of a word, for the \< and \> of grep
wordchars ==
  {"a","b","c","d","e","f","g","h","i","j","k","l","m","n","o","p","q","r","s",
   "t","u","v","w","x","y","z","A","B","C","D","E","F","G","H","I","J","K","L",
   "M","N","O","P","Q","R","S","T","U","V","W","X","Y","Z","0","1","2","3","4",
   "5","6","7","8","9","_"}

\* faulty variant: grep -q "^router ${r}"
grep_router_noboundary(conf, r) ==
  \E i \in 1..Len(conf) : startswith(conf[i], <<"r","o","u","t","e","r"," ">> \o r)

\* grep -q "^router \<${r}\>" $QUAGGA_CONF
grep_router(conf, r) ==
  \E i \in 1..Len(conf) :
    LET p == <<"r","o","u","t","e","r"," ">> \o r
    IN /\ startswith(conf[i], p)
       /\ Head(r) \in wordchars
       /\ r[Len(r)] \in wordchars
       /\ Len(conf[i]) > Len(p) => conf[i][Len(p) + 1] \notin wordchars

\* [[:space:]]* at the start of x, removed
RECURSIVE skipspace(_)
skipspace(x) ==
  IF x # <<>> /\ Head(x) \in {" ", "\t"} THEN skipspace(Tail(x)) ELSE x

\* x matches ^[[:space:]]*router[[:space:]]+pim6?[[:space:]]*$, or, with
\* six, ^[[:space:]]*router[[:space:]]+pim6[[:space:]]*$
matchpim(x, six) ==
  LET a == skipspace(x)
      b == SubSeq(a, 7, Len(a))
      c == skipspace(b)
      d == SubSeq(c, 4, Len(c))
  IN /\ startswith(a, <<"r","o","u","t","e","r">>)
     /\ b # <<>> /\ Head(b) \in {" ", "\t"}
     /\ startswith(c, <<"p","i","m">>)
     /\ \/ ~six /\ skipspace(d) = <<>>
        \/ d # <<>> /\ Head(d) = "6" /\ skipspace(Tail(d)) = <<>>

grep_pim(conf, six) == \E i \in 1..Len(conf) : matchpim(conf[i], six)

\* faulty variant: ospf before ospf6
protocols_swapped == <<<<"r","i","p">>, <<"r","i","p","n","g">>, <<"o","s","p","f">>, <<"o","s","p","f","6">>, <<"b","g","p">>, <<"b","a","b","e","l">>>>

\* for r in rip ripng ospf6 ospf bgp babel
protocols == <<<<"r","i","p">>, <<"r","i","p","n","g">>, <<"o","s","p","f","6">>, <<"o","s","p","f">>, <<"b","g","p">>, <<"b","a","b","e","l">>>>

\* bootdaemon $1: what the call does, given the words with an executable
\* $1 and whether the daemon, once run, exits with status 0
bootdaemon(prog, script, conf, execs, ok) ==
  LET dir == searchforprog(prog, script.QUAGGA_SBIN_SEARCH, execs)
      flags == IF prog = <<"x","p","i","m","d">> /\ grep_pim(conf, TRUE) THEN <<"-6">> ELSE <<>>
  IN IF dir = <<>> THEN [prog |-> prog, flags |-> <<>>, result |-> "not found"]
     ELSE [prog |-> prog, flags |-> flags \o <<"-d">>,
           result |-> IF ok THEN "started" ELSE "failed"]

\* ------------------------------------------------------------------ inputs
A4a == <<"1","0",".","0",".","0",".","1","/","2","4">>

A4b == <<"1","0",".","0",".","1",".","9","/","2","4">>

A6a == <<"2","0","0","1",":",":","1","/","6","4">>

Bogus == <<"b","o","g","u","s">>

NoNet == [present |-> FALSE, netifs |-> <<>>, linktype |-> "NONE", type |-> "NONE"]

IfcName(i) == <<"e","t","h">> \o str(i - 1)

RECURSIVE total(_)
total(lens) == IF lens = <<>> THEN 0 ELSE Head(lens) + total(Tail(lens))

\* the address lists of at most MaxAddrs addresses of pool
AddrLists(pool) == UNION {[1..k -> pool] : k \in 0..MaxAddrs}

\* an unlinked interface
Ifc(i, c, al) ==
  [name |-> IfcName(i), control |-> c, addrlist |-> al, mtu |-> DefaultMtu, net |-> NoNet]

Unset == [set |-> FALSE, value |-> <<>>]

DefaultOptions == [quagga_bin_search |-> Unset, quagga_sbin_search |-> Unset]

CustomOptions ==
  [quagga_bin_search |-> [set |-> TRUE, value |-> <<<<"/","o","p","t","/","q","u","a","g","g","a","/","b","i","n">>>>],
   quagga_sbin_search |-> [set |-> TRUE, value |-> <<<<"/","o","p","t","/","q","u","a","g","g","a","/","s","b","i","n">>>>]]

\* a node of at most MaxIfcs interfaces that hold at most MaxAddrs addresses
\* of addrs between them, with zebra and at most MaxServices distinct
\* services of pool enabled
IsNode(nd, addrs, pool) ==
  \E n \in 0..MaxIfcs :
    \E al \in [1..n -> AddrLists(addrs)] :
      /\ total([i \in 1..n |-> Len(al[i])]) <= MaxAddrs
      /\ \E c \in [1..n -> BOOLEAN], k \in 0..MaxServices :
           \E ss \in [1..k -> pool] :
             /\ \A i, j \in 1..k : i # j => ss[i] # ss[j]
             /\ nd = [id |-> 7, netifs |-> [i \in 1..n |-> Ifc(i, c[i], al[i])],
                      services |-> <<Zebra>> \o ss, options |-> DefaultOptions]

\* the node of two interfaces, eth0 routed and eth1 a control interface,
\* one address each, with zebra and at most MaxServices distinct services
\* of pool enabled
IsSmallNode(nd, pool, options) ==
  \E k \in 0..MaxServices :
    \E ss \in [1..k -> pool] :
      /\ \A i, j \in 1..k : i # j => ss[i] # ss[j]
      /\ nd = [id |-> 7,
               netifs |-> <<Ifc(1, FALSE, <<A4a>>), Ifc(2, TRUE, <<A4b>>)>>,
               services |-> <<Zebra>> \o ss, options |-> options]

Mtus == {DefaultMtu, 9000, 1280}

LinkKinds ==
  {[linktype |-> "WIRED", type |-> "SWITCH"],
   [linktype |-> "WIRELESS", type |-> "WIRELESS_LAN"]}

\* the link of an interface of MTU m with the peers' MTUs
Link(m, peers, kind) ==
  [present |-> TRUE, netifs |-> <<m>> \o peers,
   linktype |-> kind.linktype, type |-> kind.type]

\* a node of one routed interface, unlinked or on a link with at most
\* MaxPeers peers
IsLinkedNode(nd) ==
  \E m \in Mtus :
    \E net \in {NoNet} \cup
               {Link(m, peers, kind) :
                  peers \in UNION {[1..k -> Mtus] : k \in 0..MaxPeers},
                  kind \in LinkKinds} :
      nd = [id |-> 7,
            netifs |-> <<[name |-> IfcName(1), control |-> FALSE,
                          addrlist |-> <<A4a>>, mtu |-> m, net |-> net]>>,
            services |-> <<Zebra, Ospfv2, Ospfv3, Ospfv3mdr, Babel>>,
            options |-> DefaultOptions]

NoBoot ==
  [state |-> "none", QUAGGA_CONF |-> "", QUAGGA_SBIN_SEARCH |-> <<>>,
   QUAGGA_BIN_SEARCH |-> <<>>, QUAGGA_STATE_DIR |-> ""]

NoIfcCfg == [name |-> "none", ifc |-> 0, text |-> <<>>]

NoRun ==
  [pc |-> "none", argv1 |-> "", host |-> "", status |-> 0, bindir |-> <<>>,
   r |-> 1, log |-> <<>>, links |-> {}, chowned |-> FALSE]

Idle ==
  /\ quaggaConf = NotRun
  /\ quaggaBoot = NoBoot
  /\ ifccfg = NoIfcCfg
  /\ out = <<>>
  /\ run = NoRun

\* ----------------------------------------------------------------- actions
\* Zebra.generateQuaggaConf(node), its result written as Quagga.conf; the
\* files of a service are written before its startup commands are run
GenerateQuaggaConf ==
  /\ run.pc = "none"
  /\ quaggaConf' = generateQuaggaConf(node)
  /\ UNCHANGED <<node, quaggaBoot, ifccfg, out, run>>

\* Zebra.generateQuaggaBoot(node), its result written as quaggaboot.sh
GenerateQuaggaBoot ==
  /\ run.pc = "none"
  /\ quaggaBoot' = generateQuaggaBoot(node)
  /\ UNCHANGED <<node, quaggaConf, ifccfg, out, run>>

\* s.generatequaggaifcconfig(node, ifc) for a service whose hooks are
\* invoked and an interface that is not a control interface
GenerateIfcConfig ==
  /\ \E k \in 1..Len(node.services), i \in 1..Len(node.netifs) :
       /\ depends(node.services[k])
       /\ ~control(node.netifs[i])
       /\ ifccfg' = [name |-> node.services[k].name, ifc |-> i,
                     text |-> generatequaggaifcconfig(node.services[k], node,
                                                      node.netifs[i])]
  /\ UNCHANGED <<node, quaggaConf, quaggaBoot, out, run>>

\* Zebra.generate_config(node, filename), for a file of the service or
\* another; out is the list of the calls and their results
GenerateConfig ==
  /\ Len(out) < MaxCalls
  /\ \E filename \in {configs[i] : i \in 1..3} \cup {"ospfd.conf"} :
       out' = Append(out, [filename |-> filename,
                           result |-> generate_config(node, filename)])
  /\ UNCHANGED <<node, quaggaConf, quaggaBoot, ifccfg, run>>

\* the hosts a script runs on: whether /etc/quagga is a directory, the
\* files in it, whether the user quagga exists, and the directories that
\* hold an executable vtysh
Hosts == {"bare", "packaged", "stripped"}

etcquagga(host) == host = "packaged"

etcfiles(host) == IF host = "packaged" THEN {"vtysh.conf"} ELSE {}

quaggauser(host) == host = "packaged"

vtyshdirs(host) ==
  CASE host = "bare" -> {<<"/","u","s","r","/","b","i","n">>}
    [] host = "packaged" -> {<<"/","u","s","r","/","l","i","b","/","q","u","a","g","g","a">>, <<"/","u","s","r","/","b","i","n">>}
    [] OTHER -> {}

\* sh quaggaboot.sh <argv1>, once both files are written (Zebra.startup
\* passes zebra)
Startup ==
  /\ run.pc = "none"
  /\ quaggaConf.state = "returned"
  /\ quaggaBoot.state = "returned"
  /\ \E a \in {"zebra", "bgpd"}, h \in Hosts :
       run' = [NoRun EXCEPT !.pc = "entry", !.argv1 = a, !.host = h]
  /\ UNCHANGED <<node, quaggaConf, quaggaBoot, ifccfg, out>>

\* faulty variant: the script goes on whatever its first argument
Entry_unguarded ==
  /\ run.pc = "entry"
  /\ run' = [run EXCEPT !.pc = "confcheck"]
  /\ UNCHANGED <<node, quaggaConf, quaggaBoot, ifccfg, out>>

\* if [ "$1" != "zebra" ]; then ... exit 1; fi
Entry ==
  /\ run.pc = "entry"
  /\ run' = IF run.argv1 # "zebra"
            THEN [run EXCEPT !.pc = "exited", !.status = 1]
            ELSE [run EXCEPT !.pc = "confcheck"]
  /\ UNCHANGED <<node, quaggaConf, quaggaBoot, ifccfg, out>>

\* confcheck: the two links made in /etc/quagga
Confcheck ==
  /\ run.pc = "confcheck"
  /\ LET elsewhere == quaggaBoot.QUAGGA_CONF # "/etc/quagga/Quagga.conf"
         link(f) == IF elsewhere /\ etcquagga(run.host) /\ f \notin etcfiles(run.host)
                    THEN {f} ELSE {}
     IN run' = [run EXCEPT !.pc = "bootquagga",
                           !.links = link("Quagga.conf") \cup link("vtysh.conf")]
  /\ UNCHANGED <<node, quaggaConf, quaggaBoot, ifccfg, out>>

\* bootquagga up to the first bootdaemon: the search for vtysh and the
\* chown of the state directory
FindVtysh ==
  /\ run.pc = "bootquagga"
  /\ LET dir == searchforprog(<<"v","t","y","s","h">>, quaggaBoot.QUAGGA_BIN_SEARCH,
                              vtyshdirs(run.host))
     IN run' = IF dir = <<>>
               THEN [run EXCEPT !.pc = "exited", !.status = 1]
               ELSE [run EXCEPT !.pc = "zebra", !.bindir = dir,
                                !.chowned = quaggauser(run.host)]
  /\ UNCHANGED <<node, quaggaConf, quaggaBoot, ifccfg, out>>

\* the installations of a daemon: the words p with an executable p/prog,
\* none or one of the words searched
Installs(prog) ==
  {{}} \cup {{prog}} \cup {{quaggaBoot.QUAGGA_SBIN_SEARCH[i]} :
                             i \in 1..Len(quaggaBoot.QUAGGA_SBIN_SEARCH)}

\* bootdaemon "zebra"
BootZebra ==
  /\ run.pc = "zebra"
  /\ \E execs \in Installs(<<"z","e","b","r","a">>), ok \in BOOLEAN :
       run' = [run EXCEPT !.pc = "loop", !.r = 1,
                 !.log = Append(@, bootdaemon(<<"z","e","b","r","a">>, quaggaBoot,
                                              quaggaConf.text, execs, ok))]
  /\ UNCHANGED <<node, quaggaConf, quaggaBoot, ifccfg, out>>

\* one pass of: for r in ...; do if grep ...; then bootdaemon "${r}d"; fi; done
BootLoop ==
  /\ run.pc = "loop"
  /\ IF run.r > Len(protocols)
     THEN run' = [run EXCEPT !.pc = "pim"]
     ELSE LET r == protocols[run.r]
          IN IF grep_router(quaggaConf.text, r)
             THEN \E execs \in Installs(r \o <<"d">>), ok \in BOOLEAN :
                    run' = [run EXCEPT !.r = @ + 1,
                              !.log = Append(@, bootdaemon(r \o <<"d">>, quaggaBoot,
                                                           quaggaConf.text, execs, ok))]
             ELSE run' = [run EXCEPT !.r = @ + 1]
  /\ UNCHANGED <<node, quaggaConf, quaggaBoot, ifccfg, out>>

\* if grep -E -q '...pim6?...'; then bootdaemon "xpimd"; fi
BootPim ==
  /\ run.pc = "pim"
  /\ IF grep_pim(quaggaConf.text, FALSE)
     THEN \E execs \in Installs(<<"x","p","i","m","d">>), ok \in BOOLEAN :
            run' = [run EXCEPT !.pc = "vtysh",
                      !.log = Append(@, bootdaemon(<<"x","p","i","m","d">>, quaggaBoot,
                                                   quaggaConf.text, execs, ok))]
     ELSE run' = [run EXCEPT !.pc = "vtysh"]
  /\ UNCHANGED <<node, quaggaConf, quaggaBoot, ifccfg, out>>

\* $QUAGGA_BIN_DIR/vtysh -b, whose status is the script's
Vtysh ==
  /\ run.pc = "vtysh"
  /\ \E st \in {0, 1} :
       run' = [run EXCEPT !.pc = "exited", !.status = st,
                 !.log = Append(@, [prog |-> <<"v","t","y","s","h">>, flags |-> <<"-b">>,
                                    result |-> "ran"])]
  /\ UNCHANGED <<node, quaggaConf, quaggaBoot, ifccfg, out>>

\* ---------------------------------------------------------- specifications
\* The composition: nodes for the split by address family, for the
\* dependency gate and for the router ID.
InitCompose ==
  /\ \/ IsNode(node, {A4a, A6a, Bogus}, {Ospfv3mdr, Babel, Xpimd})
     \/ IsNode(node, {A4a, A6a, Bogus}, {Xpimd, Nhrp, Olsr})
     \/ IsNode(node, {A4a, A4b, A6a}, {Ospfv2, Ospfv3, Bgp})
  /\ Idle

NextCompose == GenerateQuaggaConf

SpecCompose == InitCompose /\ [][NextCompose]_vars

\* The interface hooks on linked interfaces.
InitHooks == IsLinkedNode(node) /\ Idle

NextHooks == GenerateIfcConfig

SpecHooks == InitHooks /\ [][NextHooks]_vars

\* Repeated generation of a node's files.
InitCalls ==
  /\ \E o \in {DefaultOptions, CustomOptions} :
       IsSmallNode(node, {Ospfv2, Bgp, Babel, Nhrp}, o)
  /\ Idle

NextCalls == GenerateConfig

SpecCalls == InitCalls /\ [][NextCalls]_vars

\* The boot of a node: its two files are generated and the script is run.
InitBoot ==
  /\ \/ IsSmallNode(node, {Rip, Ripng, Ospfv2, Ospfv3}, DefaultOptions)
     \/ IsSmallNode(node, {Ospfv3, Bgp, Babel}, DefaultOptions)
     \/ IsSmallNode(node, {Babel, Xpimd, Pim6}, DefaultOptions)
  /\ Idle

NextBoot ==
  \/ GenerateQuaggaConf
  \/ GenerateQuaggaBoot
  \/ Startup
  \/ Entry
  \/ Confcheck
  \/ FindVtysh
  \/ BootZebra
  \/ BootLoop
  \/ BootPim
  \/ Vtysh

SpecBoot == InitBoot /\ [][NextBoot]_vars

\* ============================================================= properties
\* What the properties read off the composed text.
Returned == quaggaConf.state = "returned"

NIfcs == Len(node.netifs)

HasChar(x, c) == \E i \in 1..Len(x) : x[i] = c

Prefixed(x, p) == Len(x) >= Len(p) /\ \A i \in 1..Len(p) : x[i] = p[i]

Suffix(x, p) == SubSeq(x, Len(p) + 1, Len(x))

\* the lines, among those written by the loop over the interfaces, that
\* open an interface block
Heads == {i \in 1..quaggaConf.ifclen : Prefixed(quaggaConf.text[i], <<"i","n","t","e","r","f","a","c","e"," ">>)}

BlockStart(k) == CHOOSE i \in Heads : Cardinality({j \in Heads : j < i}) = k - 1

BlockEnd(k) == IF k < NIfcs THEN BlockStart(k + 1) - 1 ELSE quaggaConf.ifclen

\* the lines of the k-th interface block after its first
BlockBody(k) == SubSeq(quaggaConf.text, BlockStart(k) + 1, BlockEnd(k))

RECURSIVE Keep(_, _)
Keep(xs, S) ==
  IF xs = <<>> THEN <<>>
  ELSE (IF Head(xs) \in S THEN <<Head(xs)>> ELSE <<>>) \o Keep(Tail(xs), S)

\* the addresses of the address statements among lines, in order
RECURSIVE Stated(_)
Stated(lines) ==
  IF lines = <<>> THEN <<>>
  ELSE (IF Prefixed(Head(lines), <<" "," ","i","p"," ","a","d","d","r","e","s","s"," ">>)
        THEN <<Suffix(Head(lines), <<" "," ","i","p"," ","a","d","d","r","e","s","s"," ">>)>>
        ELSE IF Prefixed(Head(lines), <<" "," ","i","p","v","6"," ","a","d","d","r","e","s","s"," ">>)
        THEN <<Suffix(Head(lines), <<" "," ","i","p","v","6"," ","a","d","d","r","e","s","s"," ">>)>>
        ELSE <<>>) \o Stated(Tail(lines))

Count(xs, x) == Cardinality({i \in 1..Len(xs) : xs[i] = x})

Range(xs) == {xs[i] : i \in 1..Len(xs)}

DeclaresZebra(s) == "zebra" \in s.dependencies

Routes4 == \E i \in 1..Len(node.services) :
             DeclaresZebra(node.services[i]) /\ node.services[i].ipv4_routing

Routes6 == \E i \in 1..Len(node.services) :
             DeclaresZebra(node.services[i]) /\ node.services[i].ipv6_routing

V4Shaped == {a \in {A4a, A4b, A6a, Bogus} : HasChar(a, ".")}

V6Shaped == {a \in {A4a, A4b, A6a, Bogus} : HasChar(a, ":")}

\* the addresses a block is to state: all of a control interface's, and of
\* another interface's the IPv4 ones when a service routes IPv4, then the
\* IPv6 ones when a service routes IPv6
ToState(ifc) ==
  IF ifc.control THEN ifc.addrlist
  ELSE (IF Routes4 THEN Keep(ifc.addrlist, V4Shaped) ELSE <<>>)
         \o (IF Routes6 THEN Keep(ifc.addrlist, V6Shaped) ELSE <<>>)

\* C1 as stated: in every interface's block the address statements are the
\* interface's address list, each address once, none omitted, none added.
C1_PartitionComplete ==
  Returned =>
    /\ Cardinality(Heads) = NIfcs
    /\ \A k \in 1..NIfcs :
         \A a \in Range(node.netifs[k].addrlist) \cup Range(Stated(BlockBody(k))) :
           Count(Stated(BlockBody(k)), a) = Count(node.netifs[k].addrlist, a)

\* C1 amended: a control interface's block states the interface's whole
\* address list in order; another interface's block states the IPv4-shaped
\* addresses of the list exactly when a service that declares zebra routes
\* IPv4, then the IPv6-shaped ones exactly when such a service routes IPv6;
\* nothing else is stated.
C1_StatedAddresses ==
  Returned =>
    /\ Cardinality(Heads) = NIfcs
    /\ \A k \in 1..NIfcs : Stated(BlockBody(k)) = ToState(node.netifs[k])

\* C1 witness: a composed config of a routed interface with an IPv6 and an
\* IPv4 address while only IPv6 is routed, so the IPv4 address is left out.
C1_Witness ==
  /\ Returned
  /\ Routes6 /\ ~Routes4
  /\ \E k \in 1..NIfcs :
       /\ ~node.netifs[k].control
       /\ node.netifs[k].addrlist = <<A6a, A4a>>
       /\ Stated(BlockBody(k)) = <<A6a>>

\* the line that only the global block of a service holds, and the line
\* that only its interface text holds
GlobalMark(s) ==
  CASE s.name = "OSPFv2" -> <<"r","o","u","t","e","r"," ","o","s","p","f">>
    [] s.name \in {"OSPFv3", "OSPFv3MDR"} -> <<"r","o","u","t","e","r"," ","o","s","p","f","6">>
    [] s.name = "BGP" -> <<"r","o","u","t","e","r"," ","b","g","p"," ","7">>
    [] s.name = "RIP" -> <<"r","o","u","t","e","r"," ","r","i","p">>
    [] s.name = "RIPNG" -> <<"r","o","u","t","e","r"," ","r","i","p","n","g">>
    [] s.name = "Babel" -> <<"r","o","u","t","e","r"," ","b","a","b","e","l">>
    [] s.name = "Xpimd" -> <<"r","o","u","t","e","r"," ","p","i","m">>
    [] s.name = "NHRP" -> <<"r","o","u","t","e","r"," ","n","h","r","p">>
    [] s.name = "OLSR" -> <<"r","o","u","t","e","r"," ","o","l","s","r">>
    [] s.name = "PIM6" -> <<" "," ","r","o","u","t","e","r"," "," "," ","p","i","m","6"," ">>
    [] OTHER -> <<"n","o"," ","s","u","c","h"," ","l","i","n","e">>

IfcMark(s) ==
  CASE s.name = "OSPFv3MDR" -> <<" "," ","i","p","v","6"," ","o","s","p","f","6"," ","i","n","s","t","a","n","c","e","-","i","d"," ","6","5">>
    [] s.name = "Babel" -> <<" "," ","b","a","b","e","l"," ","w","i","r","e","d">>
    [] s.name = "Xpimd" -> <<" "," ","i","p"," ","p","i","m">>
    [] s.name = "NHRP" -> <<" "," ","i","p"," ","n","h","r","p"," ","m","a","p"," ","m","u","l","t","i","c","a","s","t"," ","d","y","n","a","m","i","c">>
    [] s.name = "OLSR" -> <<" "," ","o","l","s","r"," ","h","e","l","l","o","-","i","n","t","e","r","v","a","l"," ","2">>
    [] s.name = "PIM6" -> <<" "," ","i","p","v","6"," ","p","i","m">>
    [] OTHER -> <<"n","o"," ","s","u","c","h"," ","l","i","n","e">>

Contributes(s) ==
  \E i \in 1..Len(quaggaConf.text) :
    quaggaConf.text[i] \in {GlobalMark(s), IfcMark(s)}

Enabled == {node.services[i].name : i \in 1..Len(node.services)}

C3_Framing ==
  Returned =>
    /\ Cardinality(Heads) = NIfcs
    /\ \A k \in 1..NIfcs :
         /\ quaggaConf.text[BlockStart(k)] = <<"i","n","t","e","r","f","a","c","e"," ">> \o node.netifs[k].name
         /\ BlockEnd(k) > BlockStart(k)
         /\ quaggaConf.text[BlockEnd(k)] = <<"!">>

Malformed(a) == ~HasChar(a, ".") /\ ~HasChar(a, ":")

HasMalformed ==
  \E k \in 1..NIfcs : \E a \in Range(node.netifs[k].addrlist) : Malformed(a)

\* C4 as stated: composing the config of a node that has an address of
\* neither shape, on any interface, raises the invalid-address error.
C4_MalformedRaises ==
  (quaggaConf.state # "none" /\ HasMalformed) => quaggaConf.state = "raised"

\* the router ID the claim describes: the first IPv4 address, without its
\* prefix length, of the interfaces that are not control interfaces
RoutedAddrs ==
  concat([k \in 1..NIfcs |->
    IF node.netifs[k].control THEN <<>> ELSE node.netifs[k].addrlist])

BeforeSlash(a) ==
  LET cut == {i \in 1..Len(a) : a[i] = "/"}
  IN IF cut = {} THEN a
     ELSE SubSeq(a, 1, (CHOOSE i \in cut : \A j \in cut : i <= j) - 1)

ExpectedRouterId ==
  LET v4 == Keep(RoutedAddrs, V4Shaped)
  IN IF v4 = <<>> THEN <<"0",".","0",".","0",".","0">> ELSE BeforeSlash(v4[1])

RouterIdLine(s) ==
  IF s.name = "BGP" THEN <<" "," ","b","g","p"," ","r","o","u","t","e","r","-","i","d"," ">> \o ExpectedRouterId
  ELSE <<" "," ","r","o","u","t","e","r","-","i","d"," ">> \o ExpectedRouterId

\* C7: the router ID of a node is the first IPv4 address, before the "/",
\* of its interfaces that are not control interfaces, in interface and
\* list order, and 0.0.0.0 when there is none; the global blocks of
\* OSPFv2, OSPFv3 and BGP carry this router ID, right after their router
\* line.
C7_RouterId ==
  Returned =>
    /\ routerid(node) = ExpectedRouterId
    /\ \A i \in 1..Len(node.services) :
         node.services[i].name \in {"OSPFv2", "OSPFv3", "OSPFv3MDR", "BGP"} =>
           \E j \in (quaggaConf.ifclen + 1)..(Len(quaggaConf.text) - 1) :
             /\ quaggaConf.text[j] = GlobalMark(node.services[i])
             /\ quaggaConf.text[j + 1] = RouterIdLine(node.services[i])

\* C7 witness: a composed BGP config of a node whose first interface is a
\* control interface with an IPv4 address and whose second, routed
\* interface holds another IPv4 address, which is the router ID.
C7_Witness ==
  /\ Returned
  /\ Bgp \in Range(node.services)
  /\ NIfcs = 2
  /\ node.netifs[1].control /\ node.netifs[1].addrlist = <<A4a>>
  /\ ~node.netifs[2].control /\ node.netifs[2].addrlist = <<A4b>>
  /\ ExpectedRouterId = <<"1","0",".","0",".","1",".","9">>
  /\ \E j \in 1..Len(quaggaConf.text) :
       quaggaConf.text[j] = <<" "," ","b","g","p"," ","r","o","u","t","e","r","-","i","d"," ","1","0",".","0",".","1",".","9">>

\* the services that declare zebra and have ipv6_routing = six, in order
RECURSIVE KeepServices(_, _)
KeepServices(ss, six) ==
  IF ss = <<>> THEN <<>>
  ELSE (IF DeclaresZebra(Head(ss)) /\ Head(ss).ipv6_routing = six
        THEN <<Head(ss)>> ELSE <<>>) \o KeepServices(Tail(ss), six)

AddrStatements(as) ==
  [i \in 1..Len(as) |->
    IF HasChar(as[i], ".") THEN <<" "," ","i","p"," ","a","d","d","r","e","s","s"," ">> \o as[i]
    ELSE <<" "," ","i","p","v","6"," ","a","d","d","r","e","s","s"," ">> \o as[i]]

Accumulated(six, ifc) ==
  LET ss == KeepServices(node.services, six)
  IN concat([i \in 1..Len(ss) |-> generatequaggaifcconfig(ss[i], node, ifc)])

NotBlank(lines) == Keep(lines, Range(lines) \ {<<" "," ">>})

\* C9: in the block of an interface that is not a control interface, the
\* IPv4 section (the IPv4 address statements, then the interface text of
\* the services without ipv6_routing, in service order) is there exactly
\* when a service routes IPv4, the IPv6 section (the IPv6 address
\* statements, then the interface text of the services with ipv6_routing,
\* those with both flags among them) exactly when a service routes IPv6,
\* the IPv4 section first; only services that declare zebra count.
C9_FamilySplit ==
  Returned =>
    /\ Cardinality(Heads) = NIfcs
    /\ \A k \in 1..NIfcs :
         LET ifc == node.netifs[k]
         IN ~ifc.control =>
              NotBlank(BlockBody(k)) =
                (IF Routes4
                 THEN AddrStatements(Keep(ifc.addrlist, V4Shaped)) \o Accumulated(FALSE, ifc)
                 ELSE <<>>)
                \o (IF Routes6
                    THEN AddrStatements(Keep(ifc.addrlist, V6Shaped)) \o Accumulated(TRUE, ifc)
                    ELSE <<>>)
                \o <<<<"!">>>>

\* C9 witness: a composed config of a routed interface with an IPv6 and an
\* IPv4 address on a node where a service with both flags and a service
\* with only ipv4_routing add interface text.
C9_Witness ==
  /\ Returned
  /\ node.services = <<Zebra, Ospfv3mdr, Xpimd>>
  /\ \E k \in 1..NIfcs :
       /\ ~node.netifs[k].control
       /\ node.netifs[k].addrlist = <<A6a, A4a>>
       /\ BlockBody(k) = <<<<" "," ","i","p"," ","a","d","d","r","e","s","s"," ","1","0",".","0",".","0",".","1","/","2","4">>,
                           <<" "," ","i","p"," ","m","f","e","a">>, <<" "," ","i","p"," ","i","g","m","p">>, <<" "," ","i","p"," ","p","i","m">>,
                           <<" "," ","i","p","v","6"," ","a","d","d","r","e","s","s"," ","2","0","0","1",":",":","1","/","6","4">>,
                           <<" "," ","i","p","v","6"," ","o","s","p","f","6"," ","i","n","s","t","a","n","c","e","-","i","d"," ","6","5">>, <<"!">>>>

\* What the properties read off an interface hook's result.
HookIfc == node.netifs[ifccfg.ifc]

OtherMtuOnLink(ifc) ==
  ifc.net.present /\ \E i \in 1..Len(ifc.net.netifs) : ifc.net.netifs[i] # ifc.mtu

MtuIgnore == <<<<" "," ","i","p"," ","o","s","p","f"," ","m","t","u","-","i","g","n","o","r","e">>>>

\* C5 as stated: the OSPFv2 interface text is the mtu-ignore line exactly
\* when the interface's MTU is not 1500, or the interface has no link, or
\* an interface on its link has another MTU, and is empty otherwise.
C5_NoLinkIsMismatch ==
  ifccfg.name = "OSPFv2" =>
    ifccfg.text = (IF \/ HookIfc.mtu # 1500
                      \/ ~HookIfc.net.present
                      \/ OtherMtuOnLink(HookIfc)
                   THEN MtuIgnore ELSE <<>>)

\* C5 amended: the OSPFv2 interface text is the mtu-ignore line exactly
\* when the interface's MTU is not 1500, or the interface has a link and
\* an interface on that link has another MTU; it is empty otherwise, so an
\* interface of MTU 1500 without a link gets no line.
C5_MtuIgnore ==
  ifccfg.name = "OSPFv2" =>
    ifccfg.text = (IF HookIfc.mtu # 1500 \/ OtherMtuOnLink(HookIfc)
                   THEN MtuIgnore ELSE <<>>)

\* C5 witness: the OSPFv2 interface text of an interface of MTU 1500
\* without a link, which is empty.
C5_Witness ==
  /\ ifccfg.name = "OSPFv2"
  /\ HookIfc.mtu = 1500
  /\ ~HookIfc.net.present
  /\ ifccfg.text = <<>>

\* What the properties read off a run of the boot script.
Progs == [i \in 1..Len(run.log) |-> run.log[i].prog]

\* a run that passed the two guards and went through the boot sequence
Booted == run.pc = "exited" /\ run.bindir # <<>>

Blank == {" ", "\t"}

RECURSIVE LeadingWord(_)
LeadingWord(x) ==
  IF x = <<>> \/ Head(x) \notin wordchars THEN <<>>
  ELSE <<Head(x)>> \o LeadingWord(Tail(x))

RECURSIVE UntilBlank(_)
UntilBlank(x) ==
  IF x = <<>> \/ Head(x) \in Blank THEN <<>>
  ELSE <<Head(x)>> \o UntilBlank(Tail(x))

\* the words of a line, which blanks separate
RECURSIVE Words(_)
Words(x) ==
  IF x = <<>> THEN <<>>
  ELSE IF Head(x) \in Blank THEN Words(Tail(x))
  ELSE LET w == UntilBlank(x)
       IN <<w>> \o Words(SubSeq(x, Len(w) + 1, Len(x)))

\* the config has a line that starts with "router <r>", r a whole word
RouterLine(r) ==
  \E i \in 1..Len(quaggaConf.text) :
    /\ Prefixed(quaggaConf.text[i], <<"r","o","u","t","e","r"," ">>)
    /\ LeadingWord(Suffix(quaggaConf.text[i], <<"r","o","u","t","e","r"," ">>)) = r

\* the config has a "router pim" or "router pim6" line
PimLine ==
  \E i \in 1..Len(quaggaConf.text) :
    Words(quaggaConf.text[i]) \in {<<<<"r","o","u","t","e","r">>, <<"p","i","m">>>>, <<<<"r","o","u","t","e","r">>, <<"p","i","m","6">>>>}

Daemons == <<<<"r","i","p","d">>, <<"r","i","p","n","g","d">>, <<"o","s","p","f","6","d">>, <<"o","s","p","f","d">>, <<"b","g","p","d">>, <<"b","a","b","e","l","d">>>>

Protocol(d) == SubSeq(d, 1, Len(d) - 1)

\* C6: a run of the boot sequence calls bootdaemon for zebra whatever the
\* config holds, for <r>d, r among rip, ripng, ospf6, ospf, bgp and babel,
\* exactly when a line of the config starts with "router <r>" as a whole
\* word, and for xpimd exactly when the config has a "router pim" or
\* "router pim6" line.
C6_DaemonSelection ==
  Booted =>
    /\ <<"z","e","b","r","a">> \in Range(Progs)
    /\ \A k \in 1..Len(Daemons) :
         Daemons[k] \in Range(Progs) <=> RouterLine(Protocol(Daemons[k]))
    /\ <<"x","p","i","m","d">> \in Range(Progs) <=> PimLine

\* C6 witness: a finished run against the config of OSPFv3 and BGP, which
\* has a "router ospf6" and no "router ospf" line, where zebra, ospf6d and
\* bgpd were started and ospfd was not.
C6_Witness ==
  /\ Booted
  /\ node.services = <<Zebra, Ospfv3, Bgp>>
  /\ Progs = <<<<"z","e","b","r","a">>, <<"o","s","p","f","6","d">>, <<"b","g","p","d">>, <<"v","t","y","s","h">>>>
  /\ \A i \in 1..3 : run.log[i].result = "started"

\* the launches of a whole boot sequence, in the order of the claim
LaunchOrder ==
  <<<<"z","e","b","r","a">>>>
  \o concat([k \in 1..Len(Daemons) |->
       IF RouterLine(Protocol(Daemons[k])) THEN <<Daemons[k]>> ELSE <<>>])
  \o (IF PimLine THEN <<<<"x","p","i","m","d">>>> ELSE <<>>)
  \o <<<<"v","t","y","s","h">>>>

\* C10: in every run the launches made so far are the beginning of the
\* fixed order (zebra, then the selected daemons among ripd, ripngd,
\* ospf6d, ospfd, bgpd and babeld in this order, then xpimd if selected,
\* then vtysh -b), and a finished boot sequence has made them all,
\* whichever daemons were not found or failed to start.
C10_LaunchOrder ==
  /\ Len(Progs) <= Len(LaunchOrder)
  /\ Progs = SubSeq(LaunchOrder, 1, Len(Progs))
  /\ Booted => Progs = LaunchOrder
  /\ \A i \in 1..Len(run.log) :
       run.log[i].prog = <<"v","t","y","s","h">> => run.log[i].flags = <<"-b">> /\ i = Len(run.log)

\* C10 witness: a finished run on a node with OSPFv2 enabled before OSPFv3
\* where zebra was not found and ospf6d failed to start, and ospfd and
\* vtysh -b followed all the same.
C10_Witness ==
  /\ Booted
  /\ node.services = <<Zebra, Ospfv2, Ospfv3>>
  /\ Progs = <<<<"z","e","b","r","a">>, <<"o","s","p","f","6","d">>, <<"o","s","p","f","d">>, <<"v","t","y","s","h">>>>
  /\ run.log[1].result = "not found"
  /\ run.log[2].result = "failed"

\* the host has an executable vtysh in a directory of the bin search path
VtyshInPath ==
  \E i \in 1..Len(quaggaBoot.QUAGGA_BIN_SEARCH) :
    quaggaBoot.QUAGGA_BIN_SEARCH[i] \in vtyshdirs(run.host)

\* a run one of the two guards stops
Guarded == run.pc # "none" /\ (run.argv1 # "zebra" \/ ~VtyshInPath)

\* C11: a run whose first argument is not zebra, or on a host without
\* vtysh in the bin search path, launches nothing, neither a daemon nor
\* vtysh -b, and ends with status 1, the first before confcheck has made
\* a link; so a launch is only ever made in a run that passed both guards.
C11_Guards ==
  Guarded =>
    /\ run.log = <<>>
    /\ run.pc \notin {"zebra", "loop", "pim", "vtysh"}
    /\ run.pc = "exited" => run.status = 1
    /\ run.argv1 # "zebra" => run.links = {} /\ run.pc \in {"entry", "exited"}

\* C11 witness: the script, run with bgpd as its first argument on a host
\* that has /etc/quagga and vtysh, for a node with BGP enabled, has exited
\* with status 1 without a launch or a link.
C11_Witness ==
  /\ run.pc = "exited"
  /\ run.argv1 = "bgpd"
  /\ run.host = "packaged"
  /\ Bgp \in Range(node.services)
  /\ run.status = 1
  /\ run.log = <<>>
  /\ run.links = {}

====
